---------------------------- MODULE Spec2Model ----------------------------
(***************************************************************************)
(* Offer negotiation of the outdoor marketplace backend: the Offer model   *)
(* (models/Offer.js), the offer routes (routes/offers.js) and the hourly   *)
(* expired-offers job (server.js), over the Product and Message stores.    *)
(* Each request handler is one action: requests run one at a time, and a   *)
(* request is over when its response has been sent (Deliver).              *)
(* SpecRace runs the accept handler one await at a time, so that several   *)
(* invocations interleave; SpecFail adds the handlers cut short by a write *)
(* that throws; SpecLive is Spec with the hourly job run fairly.           *)
(* SpecLogin runs the login handler, one step per await.                   *)
(* Times are in hours.                                                     *)
(***************************************************************************)
EXTENDS Integers, Sequences, FiniteSets, TLC

VARIABLES offers, listings, notes, now, res, inflight, account, logins

vars == <<offers, listings, notes, now, res, inflight, account, logins>>

\* the user document of the one account and the login requests in flight
authVars == <<account, logins>>

----------------------------------------------------------------------------
(* Bounds of the model *)

MaxOffers == 2
MaxTicks == 3
MaxPrice == 3
MaxFailed == 1
\* the stored loginAttempts counter is followed up to this value
MaxLoginAttempts == 7

(* Program constants *)

ExpiryHours == 48
WaitHours == 24

\* a JavaScript undefined: an absent field or request parameter
Undefined == -1

TickHours == WaitHours

Users == {"u1", "u2", "u3"}
ListingIds == {1, 2}
NoListing == 0
NoOffer == 0
SellerOf(l) == IF l = 1 THEN "u1" ELSE "u2"

Terminal == {"accepted", "declined", "expired", "withdrawn"}

----------------------------------------------------------------------------
(* JavaScript comparisons: any comparison with undefined is false *)

Truthy(x) == x # Undefined /\ x # 0
JsLt(a, b) == a # Undefined /\ b # Undefined /\ a < b
JsLe(a, b) == a # Undefined /\ b # Undefined /\ a <= b
JsGt(a, b) == a # Undefined /\ b # Undefined /\ a > b
JsGe(a, b) == a # Undefined /\ b # Undefined /\ a >= b

OfferIds == DOMAIN offers

----------------------------------------------------------------------------
(* models/Offer.js *)

NewOffer_ShortExpiry(l, b, s, amt, price, auto, min, t) ==
  [ listing |-> l, buyer |-> b, seller |-> s,
    offerAmount |-> amt, originalPrice |-> price,
    status |-> "pending",
    counterOffer |-> [amount |-> Undefined, timestamp |-> Undefined],
    expiresAt |-> t + WaitHours,
    acceptedAt |-> Undefined, declinedAt |-> Undefined,
    autoAcceptPrice |-> auto, minimumOffer |-> min,
    history |-> << >>, createdAt |-> t ]

NewOffer_BuyerAsSeller(l, b, s, amt, price, auto, min, t) ==
  [ listing |-> l, buyer |-> b, seller |-> b,
    offerAmount |-> amt, originalPrice |-> price,
    status |-> "pending",
    counterOffer |-> [amount |-> Undefined, timestamp |-> Undefined],
    expiresAt |-> t + ExpiryHours,
    acceptedAt |-> Undefined, declinedAt |-> Undefined,
    autoAcceptPrice |-> auto, minimumOffer |-> min,
    history |-> << >>, createdAt |-> t ]

\* new Offer({...}): the schema defaults
NewOffer(l, b, s, amt, price, auto, min, t) ==
  [ listing |-> l, buyer |-> b, seller |-> s,
    offerAmount |-> amt, originalPrice |-> price,
    status |-> "pending",
    counterOffer |-> [amount |-> Undefined, timestamp |-> Undefined],
    expiresAt |-> t + ExpiryHours,
    acceptedAt |-> Undefined, declinedAt |-> Undefined,
    autoAcceptPrice |-> auto, minimumOffer |-> min,
    history |-> << >>, createdAt |-> t ]

checkAutoResponse_DeclineFirst(o) ==
  IF o.status # "pending" THEN "none"
  ELSE IF Truthy(o.minimumOffer) /\ JsLt(o.offerAmount, o.minimumOffer)
    THEN "decline"
  ELSE IF Truthy(o.autoAcceptPrice) /\ JsGe(o.offerAmount, o.autoAcceptPrice)
    THEN "accept"
  ELSE "none"

checkAutoResponse_FlippedMinimum(o) ==
  IF o.status # "pending" THEN "none"
  ELSE IF Truthy(o.autoAcceptPrice) /\ JsGe(o.offerAmount, o.autoAcceptPrice)
    THEN "accept"
  ELSE IF Truthy(o.minimumOffer) /\ JsGt(o.offerAmount, o.minimumOffer)
    THEN "decline"
  ELSE "none"

checkAutoResponse(o) ==
  IF o.status # "pending" THEN "none"
  ELSE IF Truthy(o.autoAcceptPrice) /\ JsGe(o.offerAmount, o.autoAcceptPrice)
    THEN "accept"
  ELSE IF Truthy(o.minimumOffer) /\ JsLt(o.offerAmount, o.minimumOffer)
    THEN "decline"
  ELSE "none"

isExpired_AnyStatus(o, t) == t > o.expiresAt

isExpired(o, t) == o.status = "pending" /\ t > o.expiresAt

\* the entry the pre('save') hook pushes
HistoryEntry(o) ==
  [ action |-> o.status,
    amount |-> IF o.status = "countered" THEN o.counterOffer.amount
               ELSE o.offerAmount,
    by |-> IF o.status = "countered" THEN o.seller ELSE o.buyer ]

\* pre('save'): push a history entry when the status path is modified
preSave(o, statusModified) ==
  IF statusModified THEN [o EXCEPT !.history = Append(@, HistoryEntry(o))]
  ELSE o

\* schema validation run by save(): offerAmount is required, min 1
Valid(o) == o.offerAmount # Undefined /\ o.offerAmount >= 1

\* doc.save() of a document loaded as `old` and now holding `new`
Saved(old, new) == preSave(new, new.status # old.status)

----------------------------------------------------------------------------
(* Message.create: one notification record. notes[i] holds, in order, the   *)
(* messages whose offerDetails.offerId is offer i; notes[NoOffer] those    *)
(* that name an offer that was never stored.                               *)

Note(id, act, from, to, amt) ==
  [ offer |-> id, action |-> act, sender |-> from, receiver |-> to,
    amount |-> amt ]

\* Message.create({... offerDetails: {offerId: id, ...}})
Notify(log, n) == [log EXCEPT ![n.offer] = Append(@, n)]

\* the response of the request being handled: res.status(code).json({offer})
Resp(op, id, code) == [op |-> op, id |-> id, code |-> code]

----------------------------------------------------------------------------
\* the thresholds (minimumOffer, autoAcceptPrice) a listing may start with;
\* each satisfies the Product validators: minimumOffer < price and
\* autoAcceptPrice <= price
ListingConfigs ==
  { <<Undefined, MaxPrice>>, <<MaxPrice - 1, 1>>, <<MaxPrice - 1, MaxPrice>> }

\* the Product documents: listing 1 takes offers, listing 2 does not
InitListings(min, auto) ==
  [ l \in ListingIds |->
      [ seller |-> SellerOf(l), price |-> MaxPrice,
        acceptsOffers |-> (l = 1),
        minimumOffer |-> IF l = 1 THEN min ELSE Undefined,
        autoAcceptPrice |-> IF l = 1 THEN auto ELSE Undefined,
        status |-> "available",
        soldTo |-> Undefined, soldPrice |-> Undefined ] ]

NoResponse == Resp("none", NoOffer, 0)

\* no request is being handled
Idle == res = NoResponse

\* the accept requests whose handler is suspended at an await: the document
\* each has loaded, the await it has reached and the status it answered with
Slots == {1, 2}

NoDoc == NewOffer(NoListing, "", "", Undefined, Undefined, Undefined,
                  Undefined, 0)

NoRequest == [pc |-> "idle", id |-> NoOffer, doc |-> NoDoc, code |-> 0]

\* incLoginAttempts: const maxAttempts, const lockTime (2 hours)
maxAttempts == 5
lockTime == 2

\* the login counters of a new user: loginAttempts default 0, no lockUntil
NewUser == [loginAttempts |-> 0, lockUntil |-> Undefined]

\* a login slot with no request in it; doc is the user document the request
\* loaded, valid says whether the request carries the right password
NoLogin == [pc |-> "idle", doc |-> NewUser, valid |-> FALSE, code |-> 0]

Init ==
  /\ offers = << >>
  /\ \E c \in ListingConfigs : listings = InitListings(c[1], c[2])
  /\ notes = [i \in {NoOffer} \cup 1..MaxOffers |-> << >>]
  /\ now = 0
  /\ res = NoResponse
  /\ inflight = [s \in Slots |-> NoRequest]
  /\ account = NewUser
  /\ logins = [s \in Slots |-> NoLogin]

\* Offer.findOne({listing, buyer, status: 'pending'}): the first match
FindExisting(l, b) ==
  LET m == { i \in OfferIds : /\ offers[i].listing = l
                              /\ offers[i].buyer = b
                              /\ offers[i].status = "pending" }
  IN IF m = {} THEN NoOffer ELSE CHOOSE i \in m : \A j \in m : i <= j

\* listing.status = 'sold'; soldTo; soldPrice; listing.save()
MarkSold(l, buyerId, price) ==
  [listings EXCEPT ![l] = [@ EXCEPT !.status = "sold", !.soldTo = buyerId,
                                    !.soldPrice = price]]

\* res.status(code).json({error}): an error response names no offer
Reject(op, code) ==
  /\ res' = Resp(op, NoOffer, code)
  /\ UNCHANGED <<offers, listings, notes, now>>

FailedNotes == Len(notes[NoOffer])

\* POST /api/offers
CreateOffer(buyerId, listingId, offerAmount) ==
  /\ Idle
  /\ UNCHANGED <<inflight, authVars>>
  /\ IF listingId \notin DOMAIN listings THEN Reject("create", 404)
     ELSE
       LET listing == listings[listingId]
           existing == FindExisting(listingId, buyerId)
       IN
       IF listing.status # "available" THEN Reject("create", 400)
       ELSE IF ~listing.acceptsOffers THEN Reject("create", 400)
       ELSE IF listing.seller = buyerId THEN Reject("create", 400)
       ELSE IF existing # NoOffer /\ now - offers[existing].createdAt < WaitHours
         THEN Reject("create", 400)
       ELSE
         LET offs1 == IF existing # NoOffer
                        THEN [offers EXCEPT ![existing] =
                                Saved(@, [@ EXCEPT !.status = "withdrawn"])]
                        ELSE offers
             fresh == NewOffer(listingId, buyerId, listing.seller, offerAmount,
                               listing.price, listing.autoAcceptPrice,
                               listing.minimumOffer, now)
             auto == checkAutoResponse(fresh)
             doc == IF auto = "accept"
                      THEN [fresh EXCEPT !.status = "accepted", !.acceptedAt = now]
                    ELSE IF auto = "decline"
                      THEN [fresh EXCEPT !.status = "declined", !.declinedAt = now]
                    ELSE fresh
             id == IF Valid(doc) THEN Len(offers) + 1 ELSE NoOffer
             note == IF auto = "accept"
                       THEN Note(id, "accepted", listing.seller, buyerId, offerAmount)
                     ELSE IF auto = "decline"
                       THEN Note(id, "declined", listing.seller, buyerId, offerAmount)
                     ELSE Note(id, "created", buyerId, listing.seller, offerAmount)
         IN
         /\ IF Valid(doc) THEN Len(offers) < MaxOffers ELSE FailedNotes < MaxFailed
         /\ listings' = IF auto = "accept"
                          THEN MarkSold(listingId, buyerId, offerAmount)
                          ELSE listings
         /\ notes' = Notify(notes, note)
         /\ IF Valid(doc)
              THEN /\ offers' = Append(offs1, Saved(fresh, doc))
                   /\ res' = Resp("create", id, 201)
              ELSE /\ offers' = offs1
                   /\ res' = Resp("create", NoOffer, 500)
         /\ UNCHANGED now

\* GET /api/offers/received
ListReceived(sellerId, statusFilter, listingFilter) ==
  /\ Idle
  /\ UNCHANGED <<inflight, authVars>>
  /\ LET match(o) == /\ o.seller = sellerId
                     /\ (statusFilter = "any" \/ o.status = statusFilter)
                     /\ (listingFilter = NoListing \/ o.listing = listingFilter)
     IN
     /\ offers' = [ i \in DOMAIN offers |->
                      IF match(offers[i]) /\ isExpired(offers[i], now)
                        THEN Saved(offers[i], [offers[i] EXCEPT !.status = "expired"])
                        ELSE offers[i] ]
     /\ res' = Resp("received", NoOffer, 200)
     /\ UNCHANGED <<listings, notes, now>>

\* Offer.updateMany({listing, status: 'pending', _id: {$ne: id}},
\*                  {status: 'declined', declinedAt}): no save hooks run
DeclineSiblings_AnyStatus(offs, l, id, t) ==
  [ i \in DOMAIN offs |->
      IF offs[i].listing = l /\ i # id
        THEN [offs[i] EXCEPT !.status = "declined", !.declinedAt = t]
        ELSE offs[i] ]

DeclineSiblings_NoTimestamp(offs, l, id, t) ==
  [ i \in DOMAIN offs |->
      IF offs[i].listing = l /\ offs[i].status = "pending" /\ i # id
        THEN [offs[i] EXCEPT !.status = "declined"]
        ELSE offs[i] ]

DeclineSiblings(offs, l, id, t) ==
  [ i \in DOMAIN offs |->
      IF offs[i].listing = l /\ offs[i].status = "pending" /\ i # id
        THEN [offs[i] EXCEPT !.status = "declined", !.declinedAt = t]
        ELSE offs[i] ]

\* PUT /api/offers/:id/accept
Accept(actor, id) ==
  /\ Idle
  /\ UNCHANGED <<inflight, authVars>>
  /\ IF id \notin OfferIds THEN Reject("accept", 404)
     ELSE
       LET o == offers[id] IN
       IF o.seller # actor THEN Reject("accept", 403)
       ELSE IF o.status # "pending" THEN Reject("accept", 400)
       ELSE IF isExpired(o, now)
         THEN /\ offers' = [offers EXCEPT ![id] =
                              Saved(o, [o EXCEPT !.status = "expired"])]
              /\ res' = Resp("accept", NoOffer, 400)
              /\ UNCHANGED <<listings, notes, now>>
       ELSE
         LET acc == Saved(o, [o EXCEPT !.status = "accepted", !.acceptedAt = now])
         IN
         /\ offers' = DeclineSiblings([offers EXCEPT ![id] = acc], o.listing, id, now)
         /\ listings' = MarkSold(o.listing, o.buyer, o.offerAmount)
         /\ notes' = Notify(notes, Note(id, "accepted", o.seller, o.buyer,
                                        o.offerAmount))
         /\ res' = Resp("accept", id, 200)
         /\ UNCHANGED now

\* PUT /api/offers/:id/decline
Decline(actor, id) ==
  /\ Idle
  /\ UNCHANGED <<inflight, authVars>>
  /\ IF id \notin OfferIds THEN Reject("decline", 404)
     ELSE
       LET o == offers[id] IN
       IF o.seller # actor THEN Reject("decline", 403)
       ELSE IF o.status # "pending" THEN Reject("decline", 400)
       ELSE
         /\ offers' = [offers EXCEPT ![id] =
                         Saved(o, [o EXCEPT !.status = "declined",
                                            !.declinedAt = now])]
         /\ notes' = Notify(notes, Note(id, "declined", o.seller, o.buyer,
                                        o.offerAmount))
         /\ res' = Resp("decline", id, 200)
         /\ UNCHANGED <<listings, now>>

CounterOutOfBounds_ListingPrice(counterAmount, o) ==
  \/ JsLe(counterAmount, o.offerAmount)
  \/ JsGt(counterAmount, listings[o.listing].price)

\* the two bounds checks of PUT /:id/counter
CounterOutOfBounds(counterAmount, o) ==
  \/ JsLe(counterAmount, o.offerAmount)
  \/ JsGt(counterAmount, o.originalPrice)

\* PUT /api/offers/:id/counter
Counter(actor, id, counterAmount) ==
  /\ Idle
  /\ UNCHANGED <<inflight, authVars>>
  /\ IF id \notin OfferIds THEN Reject("counter", 404)
     ELSE
       LET o == offers[id] IN
       IF o.seller # actor THEN Reject("counter", 403)
       ELSE IF o.status # "pending" THEN Reject("counter", 400)
       ELSE IF CounterOutOfBounds(counterAmount, o) THEN Reject("counter", 400)
       ELSE
         /\ offers' = [offers EXCEPT ![id] =
                         Saved(o, [o EXCEPT !.status = "countered",
                                            !.counterOffer =
                                               [amount |-> counterAmount,
                                                timestamp |-> now],
                                            !.expiresAt = now + ExpiryHours])]
         /\ notes' = Notify(notes, Note(id, "countered", o.seller, o.buyer,
                                        counterAmount))
         /\ res' = Resp("counter", id, 200)
         /\ UNCHANGED <<listings, now>>

CanWithdraw_NotWithdrawn(o) == o.status # "withdrawn"

CanWithdraw(o) == o.status = "pending" \/ o.status = "countered"

Withdraw_AnyActor(actor, id) ==
  /\ Idle
  /\ UNCHANGED <<inflight, authVars>>
  /\ IF id \notin OfferIds THEN Reject("withdraw", 404)
     ELSE
       LET o == offers[id] IN
       IF ~CanWithdraw(o) THEN Reject("withdraw", 400)
       ELSE
         /\ offers' = [offers EXCEPT ![id] =
                         Saved(o, [o EXCEPT !.status = "withdrawn"])]
         /\ res' = Resp("withdraw", id, 200)
         /\ UNCHANGED <<listings, notes, now>>

\* PUT /api/offers/:id/withdraw
Withdraw(actor, id) ==
  /\ Idle
  /\ UNCHANGED <<inflight, authVars>>
  /\ IF id \notin OfferIds THEN Reject("withdraw", 404)
     ELSE
       LET o == offers[id] IN
       IF o.buyer # actor THEN Reject("withdraw", 403)
       ELSE IF ~CanWithdraw(o) THEN Reject("withdraw", 400)
       ELSE
         /\ offers' = [offers EXCEPT ![id] =
                         Saved(o, [o EXCEPT !.status = "withdrawn"])]
         /\ res' = Resp("withdraw", id, 200)
         /\ UNCHANGED <<listings, notes, now>>

\* PUT /api/offers/:id/respond-counter
RespondCounter(actor, id, accept) ==
  /\ Idle
  /\ UNCHANGED <<inflight, authVars>>
  /\ IF id \notin OfferIds THEN Reject("respond", 404)
     ELSE
       LET o == offers[id] IN
       IF o.buyer # actor THEN Reject("respond", 403)
       ELSE IF o.status # "countered" THEN Reject("respond", 400)
       ELSE IF accept THEN
         LET doc == [o EXCEPT !.status = "accepted", !.acceptedAt = now,
                              !.offerAmount = o.counterOffer.amount]
         IN
         IF ~Valid(doc) THEN Reject("respond", 500)
         ELSE
           /\ offers' = [offers EXCEPT ![id] = Saved(o, doc)]
           /\ listings' = MarkSold(o.listing, o.buyer, o.counterOffer.amount)
           /\ notes' = Notify(notes, Note(id, "accepted", o.buyer, o.seller,
                                          o.counterOffer.amount))
           /\ res' = Resp("respond", id, 200)
           /\ UNCHANGED now
       ELSE
         /\ offers' = [offers EXCEPT ![id] =
                         Saved(o, [o EXCEPT !.status = "declined",
                                            !.declinedAt = now])]
         /\ res' = Resp("respond", id, 200)
         /\ UNCHANGED <<listings, notes, now>>

SweepQuery_AllPending(t) ==
  { i \in OfferIds : offers[i].status = "pending" }

\* Offer.find({status: 'pending', expiresAt: {$lt: now}})
SweepQuery(t) ==
  { i \in OfferIds : offers[i].status = "pending" /\ offers[i].expiresAt < t }

\* the message the job sends for offer i
ExpiryNote(i) ==
  Note(i, "expired", offers[i].seller, offers[i].buyer, offers[i].offerAmount)

\* the hourly expired-offers job of initializeCronJobs
SweepExpired ==
  /\ UNCHANGED <<inflight, authVars>>
  /\ LET expiredOffers == SweepQuery(now) IN
     /\ offers' = [ i \in DOMAIN offers |->
                      IF i \in expiredOffers
                        THEN Saved(offers[i], [offers[i] EXCEPT !.status = "expired"])
                        ELSE offers[i] ]
     /\ notes' = [ i \in DOMAIN notes |->
                     IF i \in expiredOffers THEN Append(notes[i], ExpiryNote(i))
                     ELSE notes[i] ]
     /\ UNCHANGED <<listings, now, res>>

\* the passage of time, one step of TickHours
Tick ==
  /\ Idle
  /\ UNCHANGED <<inflight, authVars>>
  /\ /\ now + TickHours <= MaxTicks * TickHours
     /\ now' = now + TickHours
     /\ UNCHANGED <<offers, listings, notes, res>>

\* res.json(...): the response is sent and the request is over
Deliver ==
  /\ res # NoResponse
  /\ UNCHANGED <<inflight, authVars>>
  /\ res' = NoResponse
  /\ UNCHANGED <<offers, listings, notes, now>>

Amounts == {1, MaxPrice}
CounterAmounts == {Undefined, 1, MaxPrice, MaxPrice + 1}
RequestIds == 1..MaxOffers
StatusFilters == {"any", "accepted"}
ListingFilters == {NoListing, 1}

Next ==
  \/ \E b \in Users, l \in ListingIds \cup {NoListing}, amt \in Amounts :
       CreateOffer(b, l, amt)
  \/ \E a \in Users, f \in StatusFilters, l \in ListingFilters :
       ListReceived(a, f, l)
  \/ \E a \in Users, i \in RequestIds : Accept(a, i)
  \/ \E a \in Users, i \in RequestIds : Decline(a, i)
  \/ \E a \in Users, i \in RequestIds, amt \in CounterAmounts : Counter(a, i, amt)
  \/ \E a \in Users, i \in RequestIds : Withdraw(a, i)
  \/ \E a \in Users, i \in RequestIds, acc \in BOOLEAN : RespondCounter(a, i, acc)
  \/ SweepExpired
  \/ Tick
  \/ Deliver

Spec == Init /\ [][Next]_vars

\* cron.schedule('0 * * * *', ...): the job runs every hour
SpecLive == Init /\ [][Next]_vars /\ WF_vars(SweepExpired)
----------------------------------------------------------------------------
(* PUT /api/offers/:id/accept, one await at a time: several invocations of  *)
(* the handler may be suspended at once, each holding the document it       *)
(* loaded.                                                                  *)

\* doc.save() of a loaded document: the modified paths are $set and the
\* entry pushed by pre('save') is $push-ed onto the stored history
SaveModified(stored, doc) ==
  [stored EXCEPT !.status = doc.status,
                 !.acceptedAt = IF doc.status = "accepted" THEN doc.acceptedAt
                                ELSE @,
                 !.history = Append(@, HistoryEntry(doc))]

\* the handler has answered with status `code`
Answered(s, id, code) ==
  inflight' = [inflight EXCEPT ![s] = [@ EXCEPT !.pc = "done", !.id = id,
                                                !.code = code]]

\* the handler is suspended at the await `pc`
Suspended(s, pc) == inflight' = [inflight EXCEPT ![s].pc = pc]

\* Offer.findById and the checks that follow it, up to the first save
AcceptLoad(s, actor, id) ==
  /\ inflight[s].pc = "idle"
  /\ IF id \notin OfferIds THEN Answered(s, id, 404)
     ELSE
       LET o == offers[id] IN
       IF o.seller # actor THEN Answered(s, id, 403)
       ELSE IF o.status # "pending" THEN Answered(s, id, 400)
       ELSE
         inflight' = [inflight EXCEPT ![s] =
           [ pc |-> "loaded", id |-> id, code |-> 0,
             doc |-> IF isExpired(o, now)
                       THEN [o EXCEPT !.status = "expired"]
                       ELSE [o EXCEPT !.status = "accepted",
                                      !.acceptedAt = now] ]]
  /\ UNCHANGED <<offers, listings, notes, now, res, authVars>>

\* await offer.save()
AcceptSaveOffer(s) ==
  /\ inflight[s].pc = "loaded"
  /\ LET r == inflight[s] IN
     /\ offers' = [offers EXCEPT ![r.id] = SaveModified(@, r.doc)]
     /\ IF r.doc.status = "expired" THEN Answered(s, r.id, 400)
        ELSE Suspended(s, "offerSaved")
  /\ UNCHANGED <<listings, notes, now, res, authVars>>

\* await listing.save()
AcceptSaveListing(s) ==
  /\ inflight[s].pc = "offerSaved"
  /\ LET doc == inflight[s].doc IN
     listings' = MarkSold(doc.listing, doc.buyer, doc.offerAmount)
  /\ Suspended(s, "listingSaved")
  /\ UNCHANGED <<offers, notes, now, res, authVars>>

\* await Offer.updateMany(...)
AcceptDeclineSiblings(s) ==
  /\ inflight[s].pc = "listingSaved"
  /\ offers' = DeclineSiblings(offers, inflight[s].doc.listing, inflight[s].id,
                               now)
  /\ Suspended(s, "siblingsDeclined")
  /\ UNCHANGED <<listings, notes, now, res, authVars>>

\* await Message.create(...); res.json(...)
AcceptNotify(s) ==
  /\ inflight[s].pc = "siblingsDeclined"
  /\ LET r == inflight[s] IN
     /\ notes' = Notify(notes, Note(r.id, "accepted", r.doc.seller, r.doc.buyer,
                                    r.doc.offerAmount))
     /\ Answered(s, r.id, 200)
  /\ UNCHANGED <<offers, listings, now, res, authVars>>

NextRace ==
  \/ \E b \in Users, l \in ListingIds, amt \in Amounts : CreateOffer(b, l, amt)
  \/ \E s \in Slots, a \in Users, i \in RequestIds : AcceptLoad(s, a, i)
  \/ \E s \in Slots : AcceptSaveOffer(s)
  \/ \E s \in Slots : AcceptSaveListing(s)
  \/ \E s \in Slots : AcceptDeclineSiblings(s)
  \/ \E s \in Slots : AcceptNotify(s)
  \/ Tick
  \/ Deliver

SpecRace == Init /\ [][NextRace]_vars

----------------------------------------------------------------------------
(* PUT /api/offers/:id/withdraw, one await at a time, beside the accept     *)
(* handler.                                                                 *)

\* Offer.findById and the checks that follow it, up to the save
WithdrawLoad(s, actor, id) ==
  /\ inflight[s].pc = "idle"
  /\ IF id \notin OfferIds THEN Answered(s, id, 404)
     ELSE
       LET o == offers[id] IN
       IF o.buyer # actor THEN Answered(s, id, 403)
       ELSE IF ~CanWithdraw(o) THEN Answered(s, id, 400)
       ELSE
         inflight' = [inflight EXCEPT ![s] =
           [ pc |-> "withdrawing", id |-> id, code |-> 0,
             doc |-> [o EXCEPT !.status = "withdrawn"] ]]
  /\ UNCHANGED <<offers, listings, notes, now, res, authVars>>

\* await offer.save(); res.json(...)
WithdrawSave(s) ==
  /\ inflight[s].pc = "withdrawing"
  /\ LET r == inflight[s] IN
     /\ offers' = [offers EXCEPT ![r.id] = SaveModified(@, r.doc)]
     /\ Answered(s, r.id, 200)
  /\ UNCHANGED <<listings, notes, now, res, authVars>>

NextOverwrite ==
  \/ \E b \in Users, l \in ListingIds, amt \in Amounts : CreateOffer(b, l, amt)
  \/ \E s \in Slots, a \in Users, i \in RequestIds : AcceptLoad(s, a, i)
  \/ \E s \in Slots : AcceptSaveOffer(s)
  \/ \E s \in Slots : AcceptSaveListing(s)
  \/ \E s \in Slots : AcceptDeclineSiblings(s)
  \/ \E s \in Slots : AcceptNotify(s)
  \/ \E s \in Slots, a \in Users, i \in RequestIds : WithdrawLoad(s, a, i)
  \/ \E s \in Slots : WithdrawSave(s)
  \/ Deliver

SpecOverwrite == Init /\ [][NextOverwrite]_vars

----------------------------------------------------------------------------
(* The handlers when one of their writes fails: the exception is caught and *)
(* the request is answered 500; the writes made before it stay.             *)

\* the writes of POST /, in order: existingOffer.save(), listing.save(),
\* Message.create(), offer.save()
FailPoints == {"withdraw", "listing", "notify", "save"}

\* POST /api/offers that passes its guards and whose write `at` throws
CreateOfferFails(buyerId, listingId, offerAmount, at) ==
  /\ Idle
  /\ UNCHANGED <<inflight, authVars>>
  /\ listingId \in DOMAIN listings
  /\ LET listing == listings[listingId]
         existing == FindExisting(listingId, buyerId)
         offs1 == IF existing # NoOffer
                    THEN [offers EXCEPT ![existing] =
                            Saved(@, [@ EXCEPT !.status = "withdrawn"])]
                    ELSE offers
         fresh == NewOffer(listingId, buyerId, listing.seller, offerAmount,
                           listing.price, listing.autoAcceptPrice,
                           listing.minimumOffer, now)
         auto == checkAutoResponse(fresh)
         note == IF auto = "accept"
                   THEN Note(NoOffer, "accepted", listing.seller, buyerId,
                             offerAmount)
                 ELSE IF auto = "decline"
                   THEN Note(NoOffer, "declined", listing.seller, buyerId,
                             offerAmount)
                 ELSE Note(NoOffer, "created", buyerId, listing.seller,
                           offerAmount)
     IN
     /\ listing.status = "available"
     /\ listing.acceptsOffers
     /\ listing.seller # buyerId
     /\ ~(existing # NoOffer /\ now - offers[existing].createdAt < WaitHours)
     /\ at = "withdraw" => existing # NoOffer
     /\ at = "listing" => auto = "accept"
     /\ at = "save" => FailedNotes < MaxFailed
     /\ offers' = IF at = "withdraw" THEN offers ELSE offs1
     /\ listings' = IF at \in {"notify", "save"} /\ auto = "accept"
                      THEN MarkSold(listingId, buyerId, offerAmount)
                      ELSE listings
     /\ notes' = IF at = "save" THEN Notify(notes, note) ELSE notes
     /\ res' = Resp("create", NoOffer, 500)
     /\ UNCHANGED now

\* PUT /:id/accept whose Message.create throws
AcceptFails(actor, id) ==
  /\ Idle
  /\ UNCHANGED <<inflight, authVars>>
  /\ id \in OfferIds
  /\ LET o == offers[id]
         acc == Saved(o, [o EXCEPT !.status = "accepted", !.acceptedAt = now])
     IN
     /\ o.seller = actor
     /\ o.status = "pending"
     /\ ~isExpired(o, now)
     /\ offers' = DeclineSiblings([offers EXCEPT ![id] = acc], o.listing, id, now)
     /\ listings' = MarkSold(o.listing, o.buyer, o.offerAmount)
     /\ res' = Resp("accept", NoOffer, 500)
     /\ UNCHANGED <<notes, now>>

\* PUT /:id/decline whose Message.create throws
DeclineFails(actor, id) ==
  /\ Idle
  /\ UNCHANGED <<inflight, authVars>>
  /\ id \in OfferIds
  /\ LET o == offers[id] IN
     /\ o.seller = actor
     /\ o.status = "pending"
     /\ offers' = [offers EXCEPT ![id] =
                     Saved(o, [o EXCEPT !.status = "declined",
                                        !.declinedAt = now])]
     /\ res' = Resp("decline", NoOffer, 500)
     /\ UNCHANGED <<listings, notes, now>>

\* PUT /:id/counter whose Message.create throws
CounterFails(actor, id, counterAmount) ==
  /\ Idle
  /\ UNCHANGED <<inflight, authVars>>
  /\ id \in OfferIds
  /\ LET o == offers[id] IN
     /\ o.seller = actor
     /\ o.status = "pending"
     /\ ~CounterOutOfBounds(counterAmount, o)
     /\ offers' = [offers EXCEPT ![id] =
                     Saved(o, [o EXCEPT !.status = "countered",
                                        !.counterOffer =
                                           [amount |-> counterAmount,
                                            timestamp |-> now],
                                        !.expiresAt = now + ExpiryHours])]
     /\ res' = Resp("counter", NoOffer, 500)
     /\ UNCHANGED <<listings, notes, now>>

\* PUT /:id/respond-counter with accept, whose Message.create throws
RespondCounterFails(actor, id) ==
  /\ Idle
  /\ UNCHANGED <<inflight, authVars>>
  /\ id \in OfferIds
  /\ LET o == offers[id]
         doc == [o EXCEPT !.status = "accepted", !.acceptedAt = now,
                          !.offerAmount = o.counterOffer.amount]
     IN
     /\ o.buyer = actor
     /\ o.status = "countered"
     /\ Valid(doc)
     /\ offers' = [offers EXCEPT ![id] = Saved(o, doc)]
     /\ listings' = MarkSold(o.listing, o.buyer, o.counterOffer.amount)
     /\ res' = Resp("respond", NoOffer, 500)
     /\ UNCHANGED <<notes, now>>

\* the expired-offers job whose Message.create for offer k throws: the
\* offers found before k are done, k is saved, the loop is abandoned
SweepExpiredFails(k) ==
  /\ UNCHANGED <<inflight, authVars>>
  /\ k \in SweepQuery(now)
  /\ offers' = [ i \in DOMAIN offers |->
                   IF i \in SweepQuery(now) /\ i <= k
                     THEN Saved(offers[i], [offers[i] EXCEPT !.status = "expired"])
                     ELSE offers[i] ]
  /\ notes' = [ i \in DOMAIN notes |->
                  IF i \in SweepQuery(now) /\ i < k
                    THEN Append(notes[i], ExpiryNote(i))
                    ELSE notes[i] ]
  /\ UNCHANGED <<listings, now, res>>

NextFail ==
  \/ \E b \in Users, l \in ListingIds, amt \in Amounts : CreateOffer(b, l, amt)
  \/ \E b \in Users, l \in ListingIds, amt \in Amounts, at \in FailPoints :
       CreateOfferFails(b, l, amt, at)
  \/ \E a \in Users, i \in RequestIds : AcceptFails(a, i)
  \/ \E a \in Users, i \in RequestIds : DeclineFails(a, i)
  \/ \E a \in Users, i \in RequestIds, amt \in CounterAmounts :
       CounterFails(a, i, amt)
  \/ \E a \in Users, i \in RequestIds : RespondCounterFails(a, i)
  \/ \E k \in RequestIds : SweepExpiredFails(k)
  \/ SweepExpired
  \/ Tick
  \/ Deliver

SpecFail == Init /\ [][NextFail]_vars

----------------------------------------------------------------------------
(* PUT /api/products/:id: the seller edits a listing that is still          *)
(* available.                                                               *)

\* the validators of Product.minimumOffer and Product.autoAcceptPrice
ValidListing(p) ==
  /\ ~Truthy(p.minimumOffer) \/ p.minimumOffer < p.price
  /\ ~Truthy(p.autoAcceptPrice) \/ p.autoAcceptPrice <= p.price

\* product.canEdit(userId)
canEdit(p, userId) == p.seller = userId /\ p.status = "available"

\* Object.assign(product, updateData): a field absent from the body is kept
Assigned(old, new) == IF new = Undefined THEN old ELSE new

\* PUT /api/products/:id
UpdateListing(actor, l, price, min, auto) ==
  /\ Idle
  /\ UNCHANGED <<inflight, authVars>>
  /\ IF l \notin DOMAIN listings THEN Reject("update", 404)
     ELSE IF ~canEdit(listings[l], actor) THEN Reject("update", 403)
     ELSE
       LET upd == [listings[l] EXCEPT
                     !.price = Assigned(@, price),
                     !.minimumOffer = Assigned(@, min),
                     !.autoAcceptPrice = Assigned(@, auto)]
       IN
       IF ~ValidListing(upd) THEN Reject("update", 400)
       ELSE
         /\ listings' = [listings EXCEPT ![l] = upd]
         /\ res' = Resp("update", NoOffer, 200)
         /\ UNCHANGED <<offers, notes, now>>

\* the edits drawn: (price, minimumOffer, autoAcceptPrice), Undefined for a
\* field the request leaves out
Edits ==
  { <<MaxPrice - 1, Undefined, MaxPrice - 1>>, <<Undefined, 1, Undefined>>,
    <<MaxPrice - 1, Undefined, Undefined>> }
EditActors == {"u1", "u2"}

NextEdit ==
  \/ \E b \in EditActors, amt \in Amounts : CreateOffer(b, 1, amt)
  \/ \E a \in EditActors, e \in Edits : UpdateListing(a, 1, e[1], e[2], e[3])
  \/ \E a \in EditActors, i \in RequestIds : Accept(a, i)
  \/ \E a \in EditActors, i \in RequestIds : Decline(a, i)
  \/ \E a \in EditActors, i \in RequestIds, amt \in CounterAmounts :
       Counter(a, i, amt)
  \/ \E a \in EditActors, i \in RequestIds : Withdraw(a, i)
  \/ \E a \in EditActors, i \in RequestIds, acc \in BOOLEAN :
       RespondCounter(a, i, acc)
  \/ Deliver

SpecEdit == Init /\ [][NextEdit]_vars

----------------------------------------------------------------------------
(* Login: POST /api/auth/login, one step per await, so that requests for  *)
(* the same account interleave                                            *)
(***************************************************************************)

\* userSchema.methods.isLocked, on a user document, at the current time
isLocked(u) == u.lockUntil # Undefined /\ u.lockUntil > now

\* userSchema.methods.incLoginAttempts: the conditions are computed on the
\* document the request loaded (doc); updateOne applies $set / $unset / $inc
\* to the stored document, $inc on the stored counter
incLoginAttempts(doc, stored) ==
  IF doc.lockUntil # Undefined /\ doc.lockUntil < now
  THEN [loginAttempts |-> 1, lockUntil |-> Undefined]
  ELSE [loginAttempts |-> stored.loginAttempts + 1,
        lockUntil |-> IF doc.loginAttempts + 1 >= maxAttempts /\ ~isLocked(doc)
                      THEN now + lockTime
                      ELSE stored.lockUntil]

\* userSchema.methods.resetLoginAttempts
resetLoginAttempts(stored) == [loginAttempts |-> 0, lockUntil |-> Undefined]

\* the login request in slot s is answered with code
LoginAnswered(s, code) ==
  logins' = [logins EXCEPT ![s] = [@ EXCEPT !.pc = "done", !.code = code]]

\* User.findOne, isLocked() -> 423; the account exists and is active.
\* The request is suspended at await user.comparePassword(password).
LoginLoad(s, valid) ==
  /\ logins[s].pc = "idle"
  /\ IF isLocked(account)
     THEN LoginAnswered(s, 423)
     ELSE logins' = [logins EXCEPT ![s] =
            [pc |-> "comparing", doc |-> account, valid |-> valid, code |-> 0]]
  /\ UNCHANGED <<offers, listings, notes, now, res, inflight, account>>

\* the password is wrong: await user.incLoginAttempts(), 401
LoginFailed(s) ==
  /\ logins[s].pc = "comparing"
  /\ ~logins[s].valid
  /\ account.loginAttempts < MaxLoginAttempts
  /\ account' = incLoginAttempts(logins[s].doc, account)
  /\ LoginAnswered(s, 401)
  /\ UNCHANGED <<offers, listings, notes, now, res, inflight>>

\* the password is right: await user.resetLoginAttempts(); user.save() then
\* writes lastLogin, lastActive and ipAddress only; 200
LoginSucceeded(s) ==
  /\ logins[s].pc = "comparing"
  /\ logins[s].valid
  /\ account' = resetLoginAttempts(account)
  /\ LoginAnswered(s, 200)
  /\ UNCHANGED <<offers, listings, notes, now, res, inflight>>

\* the response has been sent and the request is over
LoginRespond(s) ==
  /\ logins[s].pc = "done"
  /\ logins' = [logins EXCEPT ![s] = NoLogin]
  /\ UNCHANGED <<offers, listings, notes, now, res, inflight, account>>

NextLogin ==
  \/ \E s \in Slots, valid \in BOOLEAN : LoginLoad(s, valid)
  \/ \E s \in Slots : LoginFailed(s)
  \/ \E s \in Slots : LoginSucceeded(s)
  \/ \E s \in Slots : LoginRespond(s)
  \/ Tick

SpecLogin == Init /\ [][NextLogin]_vars

----------------------------------------------------------------------------
(***************************************************************************)
(* Properties *)

Active == {"pending", "countered"}

\* offer i has just become accepted in this step
BecomesAccepted(i) ==
  /\ offers'[i].status = "accepted"
  /\ i \in DOMAIN offers => offers[i].status # "accepted"

\* C1: whenever a step moves an offer on listing L to accepted (seller accept,
\* auto-accept at creation, buyer accepting a counter), afterwards no other
\* offer on L is pending, and every offer on L that was pending is declined.
C1_AcceptLeavesNoPending ==
  [][ \A i \in DOMAIN offers' :
        BecomesAccepted(i) =>
          \A j \in DOMAIN offers' \ {i} :
            offers'[j].listing = offers'[i].listing =>
              /\ offers'[j].status # "pending"
              /\ (j \in DOMAIN offers /\ offers[j].status = "pending")
                    => offers'[j].status = "declined" ]_vars

AcceptedOn(l) ==
  { i \in OfferIds : offers[i].listing = l /\ offers[i].status = "accepted" }

\* C2: on every listing at most one offer ever reaches accepted, and once
\* the listing is sold its soldTo and soldPrice are never overwritten.
C2_SoldOnce ==
  [][ \A l \in ListingIds :
        /\ Cardinality(AcceptedOn(l))' <= 1
        /\ listings[l].status = "sold" =>
             /\ listings'[l].soldTo = listings[l].soldTo
             /\ listings'[l].soldPrice = listings[l].soldPrice ]_vars

\* C3: a successful createOffer with offerAmount >= autoAcceptPrice (set)
\* stores the offer as accepted and leaves the listing sold to the buyer at
\* offerAmount, whatever minimumOffer is.
C3_AutoAccept ==
  [][ (res'.op = "create" /\ res'.code = 201) =>
      \A b \in Users, l \in ListingIds, amt \in Amounts :
        ( /\ CreateOffer(b, l, amt)
          /\ Truthy(listings[l].autoAcceptPrice)
          /\ amt >= listings[l].autoAcceptPrice )
        => /\ offers'[res'.id].status = "accepted"
           /\ listings'[l].status = "sold"
           /\ listings'[l].soldTo = b
           /\ listings'[l].soldPrice = amt ]_vars

\* an auto-accepted offer that is below its minimumOffer
C3_Witness ==
  /\ res.op = "create" /\ res.code = 201
  /\ offers[res.id].status = "accepted"
  /\ Truthy(offers[res.id].minimumOffer)
  /\ offers[res.id].offerAmount < offers[res.id].minimumOffer
  /\ listings[offers[res.id].listing].soldPrice = offers[res.id].offerAmount

\* C4 as stated: a createOffer with offerAmount < minimumOffer (set) stores
\* the offer as declined and leaves the listing unchanged, for every
\* autoAcceptPrice.
C4_Original ==
  [][ (res'.op = "create" /\ res'.code = 201) =>
      \A b \in Users, l \in ListingIds, amt \in Amounts :
        ( /\ CreateOffer(b, l, amt)
          /\ Truthy(listings[l].minimumOffer)
          /\ amt < listings[l].minimumOffer )
        => /\ offers'[res'.id].status = "declined"
           /\ listings' = listings ]_vars

\* C4 amended: a createOffer with offerAmount < minimumOffer (set) stores
\* the offer as declined and leaves the listing unchanged, provided
\* autoAcceptPrice is unset or above offerAmount.
C4_AutoDecline ==
  [][ (res'.op = "create" /\ res'.code = 201) =>
      \A b \in Users, l \in ListingIds, amt \in Amounts :
        ( /\ CreateOffer(b, l, amt)
          /\ Truthy(listings[l].minimumOffer)
          /\ amt < listings[l].minimumOffer
          /\ ~(Truthy(listings[l].autoAcceptPrice)
                 /\ amt >= listings[l].autoAcceptPrice) )
        => /\ offers'[res'.id].status = "declined"
           /\ listings' = listings ]_vars

\* an auto-declined offer on a listing that also has an autoAcceptPrice
C4_Witness ==
  /\ res.op = "create" /\ res.code = 201
  /\ offers[res.id].status = "declined"
  /\ Truthy(offers[res.id].autoAcceptPrice)
  /\ offers[res.id].offerAmount < offers[res.id].minimumOffer
  /\ listings[offers[res.id].listing].status = "available"

\* offerAmount < counterAmount <= originalPrice
CounterInRange(amt, o) ==
  amt # Undefined /\ o.offerAmount < amt /\ amt <= o.originalPrice

\* C5: a counter by the seller on a pending offer whose amount is missing
\* or outside offerAmount < counterAmount <= originalPrice is rejected: the
\* offer stays as it was and no notification is emitted.
C5_CounterRejected ==
  [][ res'.op = "counter" =>
      \A a \in Users, i \in RequestIds, amt \in CounterAmounts :
        ( /\ Counter(a, i, amt)
          /\ i \in OfferIds
          /\ offers[i].seller = a
          /\ offers[i].status = "pending"
          /\ ~CounterInRange(amt, offers[i]) )
        => /\ res'.code = 400
           /\ offers' = offers
           /\ notes' = notes ]_vars

\* C6: for each (listing, buyer) pair at most one offer is pending or
\* countered.
C6_OneActiveOffer ==
  \A i, j \in OfferIds :
    ( /\ offers[i].listing = offers[j].listing
      /\ offers[i].buyer = offers[j].buyer
      /\ offers[i].status \in Active
      /\ offers[j].status \in Active ) => i = j

\* C7: once an offer is accepted, declined, expired or withdrawn, no step
\* changes its status, offerAmount, counterOffer, acceptedAt, declinedAt or
\* history.
C7_TerminalFrozen ==
  [][ \A i \in DOMAIN offers :
        offers[i].status \in Terminal =>
          /\ offers'[i].status = offers[i].status
          /\ offers'[i].offerAmount = offers[i].offerAmount
          /\ offers'[i].counterOffer = offers[i].counterOffer
          /\ offers'[i].acceptedAt = offers[i].acceptedAt
          /\ offers'[i].declinedAt = offers[i].declinedAt
          /\ offers'[i].history = offers[i].history ]_vars

\* a seller's accept has just been refused while every offer is terminal
C7_Witness ==
  /\ res.op = "accept" /\ res.code = 400
  /\ Len(offers) = MaxOffers
  /\ \A i \in OfferIds : offers[i].status \in Terminal
  /\ \E i \in OfferIds : offers[i].status = "expired"

\* C8 as stated: a countered offer moves only to accepted or declined.
C8_Original ==
  [][ \A i \in DOMAIN offers :
        offers[i].status = "countered" =>
          offers'[i].status \in {"countered", "accepted", "declined"} ]_vars

\* C8 amended: a countered offer moves only to accepted, declined or (by
\* the buyer's withdraw) withdrawn; no step moves it to pending or expired.
C8_CounteredMoves ==
  [][ \A i \in DOMAIN offers :
        offers[i].status = "countered" =>
          offers'[i].status \in
            {"countered", "accepted", "declined", "withdrawn"} ]_vars

\* a countered offer past its expiresAt that the seller has just listed
C8_Witness ==
  /\ res.op = "received"
  /\ \E i \in OfferIds :
       /\ offers[i].status = "countered"
       /\ now > offers[i].expiresAt

\* C9: a withdraw by the buyer is refused with status 400 and changes
\* nothing when the offer is accepted, declined, expired or withdrawn; on a
\* pending or countered offer it sets the status to withdrawn.
C9_Withdraw ==
  [][ res'.op = "withdraw" =>
      \A a \in Users, i \in RequestIds :
        ( Withdraw(a, i) /\ i \in OfferIds /\ offers[i].buyer = a )
        => IF offers[i].status \in Terminal
             THEN /\ res'.code = 400
                  /\ offers' = offers
                  /\ listings' = listings
                  /\ notes' = notes
             ELSE /\ res'.code = 200
                  /\ offers'[i].status = "withdrawn" ]_vars

\* a withdraw has just been refused and a declined offer is stored
C9_Witness ==
  /\ res.op = "withdraw" /\ res.code = 400
  /\ \E i \in OfferIds : offers[i].status = "declined"

\* C10: every change of an offer's status appends exactly one history entry
\* and nothing else touches the history, so its length is the number of
\* status transitions.
C10_HistoryPerTransition ==
  [][ /\ \A i \in DOMAIN offers :
           IF offers'[i].status # offers[i].status
             THEN /\ Len(offers'[i].history) = Len(offers[i].history) + 1
                  /\ SubSeq(offers'[i].history, 1, Len(offers[i].history))
                       = offers[i].history
             ELSE offers'[i].history = offers[i].history
      /\ \A i \in DOMAIN offers' \ DOMAIN offers :
           Len(offers'[i].history) =
             IF offers'[i].status = "pending" THEN 0 ELSE 1 ]_vars

\* C11 as stated: every stored offer has a history whose first entry has
\* action created.
C11_FirstEntryCreated ==
  \A i \in OfferIds :
    /\ Len(offers[i].history) >= 1
    /\ offers[i].history[1].action = "created"

\* C12 as stated: a respond-counter by the buyer is refused and changes
\* nothing unless the offer is countered; on a countered offer, accept=true
\* makes it accepted at counterOffer.amount and sells the listing to the
\* buyer at that amount, accept=false makes it declined and leaves the
\* listing as it was.
C12_RespondCounter ==
  [][ res'.op = "respond" =>
      \A a \in Users, i \in RequestIds, acc \in BOOLEAN :
        ( RespondCounter(a, i, acc) /\ i \in OfferIds /\ offers[i].buyer = a )
        => IF offers[i].status # "countered"
             THEN /\ res'.code = 400
                  /\ offers' = offers
                  /\ listings' = listings
                  /\ notes' = notes
           ELSE IF acc
             THEN /\ offers'[i].status = "accepted"
                  /\ offers'[i].offerAmount = offers[i].counterOffer.amount
                  /\ listings'[offers[i].listing].status = "sold"
                  /\ listings'[offers[i].listing].soldTo = a
                  /\ listings'[offers[i].listing].soldPrice =
                       offers[i].counterOffer.amount
           ELSE /\ offers'[i].status = "declined"
                /\ listings' = listings ]_vars

\* C13: accept, decline and counter by anyone but the offer's seller, and
\* withdraw and respond-counter by anyone but the offer's buyer, are answered
\* 403 whatever the offer's status and leave offers, listings and
\* notifications unchanged.
C13_Forbidden ==
  [][ res'.op \in {"accept", "decline", "counter", "withdraw", "respond"} =>
      \A a \in Users, i \in RequestIds :
        i \in OfferIds =>
          /\ ( /\ offers[i].seller # a
               /\ \/ Accept(a, i)
                  \/ Decline(a, i)
                  \/ \E amt \in CounterAmounts : Counter(a, i, amt) )
             => /\ res'.code = 403
                /\ offers' = offers
                /\ listings' = listings
                /\ notes' = notes
          /\ ( /\ offers[i].buyer # a
               /\ \/ Withdraw(a, i)
                  \/ \E acc \in BOOLEAN : RespondCounter(a, i, acc) )
             => /\ res'.code = 403
                /\ offers' = offers
                /\ listings' = listings
                /\ notes' = notes ]_vars

\* a request on an offer has just been refused as forbidden while every
\* stored offer is in a terminal status
C13_Witness ==
  /\ res.code = 403
  /\ Len(offers) >= 1
  /\ \A i \in OfferIds : offers[i].status \in Terminal

\* C14: a createOffer on a listing that does not exist, is not available,
\* does not accept offers or belongs to the buyer is refused and changes
\* nothing; every stored offer has a buyer other than its seller, and its
\* seller is the listing's seller.
C14_CreateGuards ==
  /\ [][ res'.op = "create" =>
         \A b \in Users, l \in ListingIds \cup {NoListing}, amt \in Amounts :
           ( /\ CreateOffer(b, l, amt)
             /\ \/ l \notin DOMAIN listings
                \/ listings[l].status # "available"
                \/ ~listings[l].acceptsOffers
                \/ listings[l].seller = b )
           => /\ res'.code \in {400, 404}
              /\ offers' = offers
              /\ listings' = listings
              /\ notes' = notes ]_vars
  /\ [](\A i \in OfferIds :
          /\ offers[i].buyer # offers[i].seller
          /\ offers[i].seller = listings[offers[i].listing].seller)

\* a createOffer has just been refused while listing 1 is sold and listing 2
\* takes no offers
C14_Witness ==
  /\ res.op = "create" /\ res.code = 400
  /\ listings[1].status = "sold"
  /\ ~listings[2].acceptsOffers
  /\ Len(offers) >= 1

\* C15 as stated: a createOffer by a buyer who has a pending or countered
\* offer on the listing created less than 24 hours ago is refused, and no
\* offer is created or modified.
C15_WaitRule ==
  [][ res'.op = "create" =>
      \A b \in Users, l \in ListingIds, amt \in Amounts :
        ( /\ CreateOffer(b, l, amt)
          /\ \E i \in OfferIds :
               /\ offers[i].listing = l
               /\ offers[i].buyer = b
               /\ offers[i].status \in Active
               /\ now - offers[i].createdAt < WaitHours )
        => /\ res'.code = 400
           /\ offers' = offers ]_vars

\* the number of entries of a history or of a notification list whose
\* action is accepted
AcceptedEntries(h) ==
  Cardinality({ k \in 1..Len(h) : h[k].action = "accepted" })

\* C16 as stated: of two accept requests on the same offer that are handled
\* concurrently, one of which answers 200, the other does not answer 200,
\* and the offer ends with one accepted history entry and one acceptance
\* notification on a sold listing.
C16_OneAcceptWins ==
  \A s \in Slots, t \in Slots :
    ( /\ s # t
      /\ inflight[s].pc = "done" /\ inflight[t].pc = "done"
      /\ inflight[s].id = inflight[t].id
      /\ inflight[s].code = 200 )
    => /\ inflight[t].code # 200
       /\ AcceptedEntries(offers[inflight[s].id].history) = 1
       /\ AcceptedEntries(notes[inflight[s].id]) = 1
       /\ listings[offers[inflight[s].id].listing].status = "sold"

\* C17 as stated: when the notification write of a transition fails, the
\* transition is persisted as when it succeeds: the created offer is
\* stored, the accepted offer is accepted and its listing sold, the declined
\* offer declined, the countered offer countered, the expired offer expired.
C17_NotifyFailureKeepsOutcome ==
  [][ /\ \A b \in Users, l \in ListingIds, amt \in Amounts :
           CreateOfferFails(b, l, amt, "notify") =>
             \E i \in DOMAIN offers' \ DOMAIN offers :
               /\ offers'[i].buyer = b
               /\ offers'[i].listing = l
               /\ offers'[i].offerAmount = amt
      /\ \A a \in Users, i \in RequestIds :
           /\ AcceptFails(a, i) =>
                /\ offers'[i].status = "accepted"
                /\ listings'[offers[i].listing].status = "sold"
           /\ DeclineFails(a, i) => offers'[i].status = "declined"
           /\ RespondCounterFails(a, i) =>
                /\ offers'[i].status = "accepted"
                /\ listings'[offers[i].listing].status = "sold"
           /\ \A amt \in CounterAmounts :
                CounterFails(a, i, amt) => offers'[i].status = "countered"
      /\ \A k \in RequestIds :
           SweepExpiredFails(k) => offers'[k].status = "expired" ]_vars

\* C18 as stated: a createOffer that is answered with a failure stores no
\* new offer, changes the status of no earlier offer of the buyer and
\* leaves every listing's status, soldTo and soldPrice as they were.
C18_NoPartialState ==
  [][ (res'.op = "create" /\ res'.code # 201) =>
      \A b \in Users, l \in ListingIds, amt \in Amounts :
        ( \/ CreateOffer(b, l, amt)
          \/ \E at \in FailPoints : CreateOfferFails(b, l, amt, at) )
        => /\ Len(offers') = Len(offers)
           /\ \A i \in OfferIds :
                offers[i].buyer = b => offers'[i].status = offers[i].status
           /\ \A k \in ListingIds :
                /\ listings'[k].status = listings[k].status
                /\ listings'[k].soldTo = listings[k].soldTo
                /\ listings'[k].soldPrice = listings[k].soldPrice ]_vars

\* a threshold of the listing decides an offer of this amount
AutoApplies(amt, listing) ==
  \/ Truthy(listing.autoAcceptPrice) /\ amt >= listing.autoAcceptPrice
  \/ Truthy(listing.minimumOffer) /\ amt < listing.minimumOffer

\* C19: a createOffer whose amount a threshold of the listing decides,
\* whether it completes or is cut short by a failing write, never emits a
\* notification with action created and never stores an offer with status
\* pending.
C19_AutoBeforeNotify ==
  [][ res'.op = "create" =>
      \A b \in Users, l \in ListingIds, amt \in Amounts :
        ( /\ \/ CreateOffer(b, l, amt)
             \/ \E at \in FailPoints : CreateOfferFails(b, l, amt, at)
          /\ AutoApplies(amt, listings[l]) )
        => /\ \A i \in DOMAIN notes :
                notes'[i] # notes[i] =>
                  notes'[i][Len(notes'[i])].action # "created"
           /\ \A i \in DOMAIN offers' \ DOMAIN offers :
                offers'[i].status # "pending" ]_vars

\* a createOffer was cut short after it announced an automatic response and
\* before it stored the offer
C19_Witness ==
  /\ res.op = "create" /\ res.code = 500
  /\ Len(notes[NoOffer]) >= 1
  /\ notes[NoOffer][1].action \in {"accepted", "declined"}

\* C20: under weak fairness of the expired-offers job, an offer that is
\* pending with expiresAt in the past eventually stops being pending (it is
\* set to expired unless a request acts on it first); and no step sets a
\* pending offer to expired unless its expiresAt has passed.
C20_Expiry ==
  /\ \A i \in 1..MaxOffers :
       ( /\ i \in OfferIds
         /\ offers[i].status = "pending"
         /\ offers[i].expiresAt < now )
       ~> ( i \in OfferIds /\ offers[i].status # "pending" )
  /\ [][ \A i \in DOMAIN offers :
           ( offers[i].status = "pending" /\ offers'[i].status = "expired" )
           => now > offers[i].expiresAt ]_vars

\* the job has expired an offer and told its buyer
C20_Witness ==
  \E i \in OfferIds :
    /\ offers[i].status = "expired"
    /\ offers[i].expiresAt < now
    /\ Len(notes[i]) >= 1
    /\ notes[i][Len(notes[i])].action = "expired"

\* C21: no step changes a stored offer's listing, buyer, seller,
\* originalPrice, autoAcceptPrice or minimumOffer; an edit of the listing's
\* price or thresholds changes no offer; and a counter by the seller on a
\* pending offer is refused exactly when the amount is at or below
\* offerAmount or above the offer's own originalPrice, whatever the
\* listing's price now is.
C21_Snapshot ==
  /\ [][ \A i \in DOMAIN offers :
           /\ offers'[i].listing = offers[i].listing
           /\ offers'[i].buyer = offers[i].buyer
           /\ offers'[i].seller = offers[i].seller
           /\ offers'[i].originalPrice = offers[i].originalPrice
           /\ offers'[i].autoAcceptPrice = offers[i].autoAcceptPrice
           /\ offers'[i].minimumOffer = offers[i].minimumOffer ]_vars
  /\ [][ res'.op = "update" => offers' = offers ]_vars
  /\ [][ res'.op = "counter" =>
         \A a \in EditActors, i \in RequestIds, amt \in CounterAmounts :
           ( /\ Counter(a, i, amt)
             /\ i \in OfferIds
             /\ offers[i].seller = a
             /\ offers[i].status = "pending" )
           => ( res'.code = 400 <=>
                  \/ JsLe(amt, offers[i].offerAmount)
                  \/ JsGt(amt, offers[i].originalPrice) ) ]_vars

\* a counter above the listing's present price has just been accepted for
\* an offer made before the price was lowered
C21_Witness ==
  /\ res.op = "counter" /\ res.code = 200
  /\ offers[res.id].counterOffer.amount > listings[offers[res.id].listing].price
  /\ offers[res.id].originalPrice > listings[offers[res.id].listing].price

\* C22: with requests run one at a time, acceptedAt is set exactly when the
\* status is accepted and declinedAt exactly when it is declined; the step
\* that makes the transition writes the time of the transition, and once
\* set neither is changed.
C22_Timestamps ==
  /\ [](\A i \in OfferIds :
          /\ offers[i].acceptedAt # Undefined <=> offers[i].status = "accepted"
          /\ offers[i].declinedAt # Undefined <=> offers[i].status = "declined")
  /\ [][ /\ \A i \in DOMAIN offers :
              /\ offers[i].acceptedAt # Undefined =>
                   offers'[i].acceptedAt = offers[i].acceptedAt
              /\ offers[i].declinedAt # Undefined =>
                   offers'[i].declinedAt = offers[i].declinedAt
         /\ \A i \in DOMAIN offers' :
              /\ BecomesAccepted(i) => offers'[i].acceptedAt = now
              /\ ( /\ offers'[i].status = "declined"
                   /\ i \in DOMAIN offers => offers[i].status # "declined" )
                 => offers'[i].declinedAt = now ]_vars

\* the seller has just accepted one offer and the other offer on the
\* listing was declined with it
C22_Witness ==
  /\ res.op = "accept" /\ res.code = 200
  /\ offers[res.id].acceptedAt = now
  /\ \E j \in OfferIds \ {res.id} :
       /\ offers[j].status = "declined"
       /\ offers[j].declinedAt = now
       /\ offers[j].history = << >>

\* no handler is suspended at an await
Quiescent == \A s \in Slots : inflight[s].pc \in {"idle", "done"}

\* C23 as stated: with the handlers' reads and writes interleaved, a stored
\* status of accepted, declined, expired or withdrawn is never overwritten
\* with another status, and once the handlers have finished a sold listing
\* is sold to the buyer of an offer on it whose status is accepted.
C23_TerminalNotOverwritten ==
  /\ [][ \A i \in DOMAIN offers :
           offers[i].status \in Terminal =>
             offers'[i].status = offers[i].status ]_vars
  /\ [](Quiescent =>
          \A l \in ListingIds :
            listings[l].status = "sold" =>
              \E i \in OfferIds :
                /\ offers[i].listing = l
                /\ offers[i].buyer = listings[l].soldTo
                /\ offers[i].status = "accepted")

\* the number of entries of a history or of a notification list whose
\* action is expired
ExpiredEntries(h) ==
  Cardinality({ k \in 1..Len(h) : h[k].action = "expired" })

\* C24 as stated: an expired offer has exactly one history entry with
\* action expired and exactly one expiry notification, by whichever path it
\* expired.
C24_ExpiredOnce ==
  \A i \in OfferIds :
    offers[i].status = "expired" =>
      /\ ExpiredEntries(offers[i].history) = 1
      /\ ExpiredEntries(notes[i]) = 1

\* C25 as stated: no offer becomes accepted at a time past its expiresAt,
\* and a seller accept of a pending offer past its expiresAt is refused,
\* sets the offer to expired and leaves the listings as they were.
C25_NoAcceptAfterExpiry ==
  /\ [][ \A i \in DOMAIN offers :
           BecomesAccepted(i) => ~(now > offers[i].expiresAt) ]_vars
  /\ [][ res'.op = "accept" =>
         \A a \in Users, i \in RequestIds :
           ( /\ Accept(a, i)
             /\ i \in OfferIds
             /\ offers[i].seller = a
             /\ offers[i].status = "pending"
             /\ now > offers[i].expiresAt )
           => /\ res'.code = 400
              /\ offers'[i].status = "expired"
              /\ listings' = listings ]_vars

\* C26: an offer's expiresAt is its creation time plus 48 hours until it is
\* countered and the time of the counter plus 48 hours afterwards; a
\* successful counter sets status countered, counterOffer.amount to the
\* amount sent and expiresAt to now plus 48 hours; no other step changes
\* expiresAt.
C26_ExpiresAt ==
  /\ [](\A i \in OfferIds :
          offers[i].expiresAt =
            ( IF offers[i].counterOffer.timestamp = Undefined
                THEN offers[i].createdAt
                ELSE offers[i].counterOffer.timestamp ) + ExpiryHours)
  /\ [][ /\ res'.op = "counter" =>
              \A a \in Users, i \in RequestIds, amt \in CounterAmounts :
                ( Counter(a, i, amt) /\ res'.code = 200 )
                => /\ offers'[i].status = "countered"
                   /\ offers'[i].counterOffer.amount = amt
                   /\ offers'[i].expiresAt = now + ExpiryHours
         /\ \A i \in DOMAIN offers :
              offers'[i].expiresAt # offers[i].expiresAt =>
                /\ res = NoResponse
                /\ res' = Resp("counter", i, 200) ]_vars

\* a counter issued after the offer's creation has just moved its expiresAt
C26_Witness ==
  /\ res.op = "counter" /\ res.code = 200
  /\ offers[res.id].createdAt < now
  /\ offers[res.id].expiresAt = now + ExpiryHours
  /\ offers[res.id].expiresAt # offers[res.id].createdAt + ExpiryHours

\* the offer has a history entry with action countered
WasCountered(o) ==
  \E k \in 1..Len(o.history) : o.history[k].action = "countered"

\* C27 as stated: every stored offer has offerAmount > 0, carries a
\* counterOffer only if it is or has been countered, and if it carries one
\* has offerAmount < counterOffer.amount <= originalPrice.
C27_Amounts ==
  \A i \in OfferIds :
    /\ offers[i].offerAmount # Undefined /\ offers[i].offerAmount > 0
    /\ offers[i].counterOffer.timestamp # Undefined =>
         /\ WasCountered(offers[i])
         /\ offers[i].counterOffer.amount # Undefined
         /\ offers[i].offerAmount < offers[i].counterOffer.amount
         /\ offers[i].counterOffer.amount <= offers[i].originalPrice
    /\ offers[i].counterOffer.timestamp = Undefined =>
         offers[i].counterOffer.amount = Undefined

\* the entry a step has appended to the history of offer i
Appended(i) == offers'[i].history[Len(offers'[i].history)]

\* C28 as stated: the history entry appended by a transition names the new
\* status, carries the counter amount if the new status is countered and
\* the offer amount otherwise, and names the user who made the transition:
\* the seller for accept, decline and counter, the buyer for withdraw and
\* respond-counter.
C28_HistoryEntry ==
  [][ \A i \in DOMAIN offers :
        Len(offers'[i].history) > Len(offers[i].history) =>
          /\ Appended(i).action = offers'[i].status
          /\ Appended(i).amount =
               IF offers'[i].status = "countered"
                 THEN offers'[i].counterOffer.amount
                 ELSE offers'[i].offerAmount
          /\ (res = NoResponse /\ res'.op \in {"accept", "decline", "counter"})
               => Appended(i).by = offers[i].seller
          /\ (res = NoResponse /\ res'.op \in {"withdraw", "respond"})
               => Appended(i).by = offers[i].buyer ]_vars

\* C29 as stated: whether the handlers complete or are cut short by a
\* failing write, every sold listing has a stored offer on it with status
\* accepted, buyer equal to soldTo and offerAmount equal to soldPrice.
C29_SoldHasAcceptedOffer ==
  \A l \in ListingIds :
    listings[l].status = "sold" =>
      \E i \in OfferIds :
        /\ offers[i].listing = l
        /\ offers[i].status = "accepted"
        /\ offers[i].buyer = listings[l].soldTo
        /\ offers[i].offerAmount = listings[l].soldPrice

\* C30 as stated: login lockout. In every state loginAttempts >= 5 implies
\* lockUntil is set, also with concurrent failed logins for the account; a
\* login that arrives while lockUntil is in the future is rejected and
\* changes no counter; a successful login resets loginAttempts to 0 and
\* clears lockUntil; the first failed attempt after the lock has expired
\* sets loginAttempts to 1 and clears lockUntil.
C30_Lockout ==
  /\ [](account.loginAttempts >= maxAttempts => account.lockUntil # Undefined)
  /\ [][ \A s \in Slots :
          /\ (logins[s].pc = "idle" /\ logins'[s].pc # "idle"
                 /\ isLocked(account))
               => (logins'[s].code = 423 /\ account' = account)
          /\ (logins[s].pc = "comparing" /\ logins'[s].code = 200)
               => account' = NewUser
          /\ (logins[s].pc = "comparing" /\ logins'[s].code = 401
                 /\ account.lockUntil # Undefined /\ account.lockUntil < now)
               => account' = [loginAttempts |-> 1, lockUntil |-> Undefined]
        ]_vars

=============================================================================
